---- MODULE Spec2Model ----
(***************************************************************************)
(* Playlist generation of the m3u8 library (writer.go): the MediaPlaylist  *)
(* segment ring buffer with its cached encoding, and the MasterPlaylist.   *)
(*                                                                         *)
(* The MediaPlaylist is the record p, the MasterPlaylist the record m.     *)
(* Every method is an operator from the receiver (and the arguments) to a  *)
(* result record [p, err, panic]; an action applies one method call.       *)
(* Slice indices are 0-based as in Go: slot i of p.Segments is             *)
(* p.Segments[i + 1] of the TLA+ sequence.  Durations are in tenths of a   *)
(* second.                                                                 *)
(***************************************************************************)
EXTENDS Integers, Sequences, FiniteSets, TLC

\* ----------------------------------------------------------------- bounds
\* NewMediaPlaylist is called with a capacity in 1..NewCap.
NewCap == 2
\* InsertSegments / SetMediaSegments never grow the capacity beyond MaxCap.
MaxCap == 3
\* At most MaxSegs segments are created by the caller in one run.
MaxSegs == 4
\* At most MaxSets successful per-segment setter calls in one run.
MaxSets == 1
\* At most MaxVariants variants are appended to the master playlist.
MaxVariants == 2
\* SpecAll follows every sequence of at most MaxCalls calls.
MaxCalls == 3

\* ------------------------------------------------------ program constants
minver == 3

\* ------------------------------------------------------------------ state
VARIABLES
    obj,        \* which playlist this run builds and uses: "media" or "master"
    p,          \* the MediaPlaylist
    m,          \* the MasterPlaylist
    lastCall,   \* the method called last
    lastArg,    \* its seqID (InsertSegments) or winsize (SetWinSize) argument, else 0
    lastErr,    \* what it returned: "nil", an error text, "none" for a method without result
    panicked,   \* the last call ended in a run-time panic (index out of range, nil dereference)
    rendered,   \* the last Encode call wrote the buffer anew (FALSE: it returned the cached buffer)
    hist,       \* the run of consecutive calls of lastCall: where it started and its length
    nsegs,      \* number of MediaSegment values the caller has created so far
    nsets,      \* number of successful per-segment setter calls so far
    budget      \* number of calls the run may still make, -1 for no limit

vars == <<obj, p, m, lastCall, lastArg, lastErr, panicked, rendered, hist, nsegs, nsets, budget>>

\* ------------------------------------------------------------- data model
\* A nil *Key, *Map, *SCTE: ref names the value a call allocates, 0 is nil.
NilKey == [ref |-> 0, Keyformat |-> "", Keyformatversions |-> ""]
NilMap == [ref |-> 0, Limit |-> 0, Offset |-> 0]
NilSCTE == [ref |-> 0, Cue |-> ""]

\* A nil *MediaSegment (an empty slot of p.Segments).
NilSeg ==
    [URI |-> 0, SeqId |-> 0, Duration |-> 0, Key |-> NilKey, Map |-> NilMap,
     Limit |-> 0, Offset |-> 0, SCTE |-> NilSCTE, DateRange |-> <<>>,
     Discontinuity |-> FALSE, Gap |-> FALSE, ProgramDateTime |-> 0,
     Custom |-> <<>>]

\* new(MediaSegment) with URI and Duration set, as MediaPlaylist.Append builds it.
\* The caller names its segments 1, 2, 3, ... in the order it creates them.
NewSeg(uri, duration) == [NilSeg EXCEPT !.URI = uri, !.Duration = duration]

IsNil(seg) == seg.URI = 0

\* Segment durations the caller passes (2.0 s).
Durations == {20}

\* math.Ceil on tenths of a second.
Ceil(d) == ((d + 9) \div 10) * 10

\* p.Segments[i] for a valid index i.
At(S, i) == S[i + 1]

\* make([]*MediaSegment, n)
MakeSegs(n) == [i \in 1..n |-> NilSeg]

\* The result of a method call on the media playlist.
Ret(q, err) == [p |-> q, err |-> err, panic |-> FALSE]
Panic(q) == [p |-> q, err |-> "panic", panic |-> TRUE]

\* bytes.Buffer.Reset()
Reset(q) == [q EXCEPT !.buf = <<>>]

\* version that stores newver whatever the version is.
versionAlways(ver, newver) == newver

\* func version(ver *uint8, newver uint8)
version(ver, newver) == IF ver < newver THEN newver ELSE ver

\* ------------------------------------------------- Segment Ring Buffer
\* SetWinSize that also refuses a window as large as the capacity.
SetWinSizeBelow(q, winsize) ==
    IF winsize >= q.capacity
        THEN Ret(q, "capacity must be greater than winsize or equal")
        ELSE Ret([q EXCEPT !.winsize = winsize], "nil")

\* func (p *MediaPlaylist) SetWinSize(winsize uint) error
SetWinSize(q, winsize) ==
    IF winsize > q.capacity
        THEN Ret(q, "capacity must be greater than winsize or equal")
        ELSE Ret([q EXCEPT !.winsize = winsize], "nil")

\* new(MediaPlaylist): every field has its zero value, p.Segments is the nil slice.
ZeroPlaylist ==
    [ver |-> 0, capacity |-> 0, winsize |-> 0, Segments |-> <<>>,
     head |-> 0, tail |-> 0, count |-> 0, SeqNo |-> 0,
     Closed |-> FALSE, TargetDuration |-> 0, Key |-> NilKey, Map |-> NilMap,
     Iframe |-> FALSE, durationAsInt |-> FALSE, buf |-> <<>>]

\* func NewMediaPlaylist(winsize uint, capacity uint) (*MediaPlaylist, error)
\* When SetWinSize fails the function returns nil and the error: the result
\* then carries the struct the function allocated and dropped.
NewMediaPlaylist(winsize, capacity) ==
    LET r == SetWinSize([ZeroPlaylist EXCEPT !.ver = minver, !.capacity = capacity], winsize)
    IN  IF r.err # "nil" THEN r
        ELSE Ret([r.p EXCEPT !.Segments = MakeSegs(capacity)], "nil")

\* The playlist the caller works with: p.SeqNo is an exported field, the
\* caller may set the base sequence number before the first Append.
WithSeqNo(q, seqNo) == [q EXCEPT !.SeqNo = seqNo]

\* InsertIndex with seqID = 0 taken for "at the end".
InsertIndexAtEnd(seqID, len) ==
    IF seqID = 0 \/ seqID >= len THEN len ELSE seqID - 1

\* The index InsertSegments inserts at, for len = len(p.Segments).
InsertIndex(seqID, len) ==
    IF seqID >= len THEN len
    ELSE IF seqID # 0 /\ seqID < len THEN seqID - 1
    ELSE 0

\* p.Segments after the shift and the copy of `segments` to insertIndex.  Both
\* branches of the cap() test give this slice: a new array filled by two
\* copies, or the old array resliced and shifted in place.
InsertShift(old, segments, insertIndex) ==
    LET n == Len(segments)
    IN  [i \in 1..(Len(old) + n) |->
            IF i - 1 < insertIndex THEN old[i]
            ELSE IF i - 1 < insertIndex + n THEN segments[i - insertIndex]
            ELSE old[i - n]]

\* The two renumbering loops of InsertSegments over the shifted slice S.
InsertRenumber(S, insertIndex, n) ==
    [i \in 1..Len(S) |->
        IF i - 1 >= insertIndex /\ i - 1 < insertIndex + n
            THEN [S[i] EXCEPT !.SeqId = insertIndex + ((i - 1) - insertIndex + 1)]
        ELSE IF i - 1 >= insertIndex + n /\ ~IsNil(S[i])
            THEN [S[i] EXCEPT !.SeqId = @ + n]
        ELSE S[i]]

\* func (p *MediaPlaylist) InsertSegments(segments []*MediaSegment, seqID uint64) error
InsertSegments(q, segments, seqID) ==
    IF Len(segments) = 0 THEN Ret(q, "ErrPlaylistEmpty")
    ELSE
        LET insertIndex == InsertIndex(seqID, Len(q.Segments))
            adjustment == Len(segments)
            S == InsertRenumber(InsertShift(q.Segments, segments, insertIndex),
                                insertIndex, adjustment)
        IN  Ret(Reset([q EXCEPT !.Segments = S,
                                !.count = q.count + adjustment,
                                !.capacity = q.capacity + adjustment,
                                !.tail = q.count + adjustment]), "nil")

\* func (p *MediaPlaylist) SetMediaSegments(segments []*MediaSegment)
SetMediaSegments(q, segments) ==
    Ret(Reset([q EXCEPT !.Segments = segments,
                        !.count = Len(segments),
                        !.tail = Len(segments),
                        !.capacity = Len(segments)]), "none")

\* func (p *MediaPlaylist) last() uint.  With capacity 0 and tail 0 the uint
\* subtraction wraps to the largest uint, an index outside every slice: -1 here.
last(q) == IF q.tail = 0 THEN q.capacity - 1 ELSE q.tail - 1

\* An index expression p.Segments[i] that does not panic.
InRange(q, i) == i >= 0 /\ i < Len(q.Segments)

\* Remove that resets the cache before it tests the count.
RemoveResetsFirst(q) ==
    IF q.count = 0 THEN Ret(Reset(q), "playlist is empty")
    ELSE IF q.capacity = 0 THEN Panic(q)
    ELSE Ret(Reset([q EXCEPT !.head = (q.head + 1) % q.capacity,
                             !.count = q.count - 1,
                             !.SeqNo = IF ~q.Closed THEN q.SeqNo + 1 ELSE q.SeqNo]),
             "nil")

\* Remove that advances the base sequence number of a closed playlist too.
RemoveCountsClosed(q) ==
    IF q.count = 0 THEN Ret(q, "playlist is empty")
    ELSE IF q.capacity = 0 THEN Panic(q)
    ELSE Ret(Reset([q EXCEPT !.head = (q.head + 1) % q.capacity,
                             !.count = q.count - 1,
                             !.SeqNo = q.SeqNo + 1]), "nil")

\* Remove that takes the newest segment: it moves tail back and leaves head.
RemoveNewest(q) ==
    IF q.count = 0 THEN Ret(q, "playlist is empty")
    ELSE IF q.capacity = 0 THEN Panic(q)
    ELSE Ret(Reset([q EXCEPT !.tail = (q.tail + q.capacity - 1) % q.capacity,
                             !.count = q.count - 1,
                             !.SeqNo = IF ~q.Closed THEN q.SeqNo + 1 ELSE q.SeqNo]),
             "nil")

\* func (p *MediaPlaylist) Remove() (err error)
Remove(q) ==
    IF q.count = 0 THEN Ret(q, "playlist is empty")
    ELSE IF q.capacity = 0 THEN Panic(q)
    ELSE Ret(Reset([q EXCEPT !.head = (q.head + 1) % q.capacity,
                             !.count = q.count - 1,
                             !.SeqNo = IF ~q.Closed THEN q.SeqNo + 1 ELSE q.SeqNo]),
             "nil")

\* IsFull without the test of the count.
IsFullNoCount(q) == q.head = q.tail

\* The condition on which AppendSegment reports a full playlist.
IsFull(q) == q.head = q.tail /\ q.count > 0

\* TargetAfter that takes the duration of the segment appended last.
TargetAfterLast(target, duration) == Ceil(duration)

\* p.TargetDuration after AppendSegment has stored a segment of `duration`.
TargetAfter(target, duration) == IF target < duration THEN Ceil(duration) ELSE target

\* SeqIdAfter that numbers every segment with the base sequence number.
SeqIdFromBase(q, prev) == q.SeqNo

\* The sequence id AppendSegment gives the segment, prev being the slot before tail.
SeqIdAfter(q, prev) == IF q.count > 0 THEN At(q.Segments, prev).SeqId + 1 ELSE q.SeqNo

\* func (p *MediaPlaylist) AppendSegment(seg *MediaSegment) error
AppendSegment(q, seg) ==
    IF IsFull(q) THEN Ret(q, "ErrPlaylistFull")
    ELSE
        LET prev == (q.capacity + q.tail - 1) % q.capacity
            seqId == SeqIdAfter(q, prev)
        IN  IF q.count > 0 /\ (q.capacity = 0 \/ ~InRange(q, prev)) THEN Panic(q)
            ELSE IF q.count > 0 /\ IsNil(At(q.Segments, prev)) THEN Panic(q)
            ELSE IF ~InRange(q, q.tail) THEN Panic(q)
            ELSE Ret(Reset([q EXCEPT
                     !.Segments[q.tail + 1] = [seg EXCEPT !.SeqId = seqId],
                     !.tail = (q.tail + 1) % q.capacity,
                     !.count = q.count + 1,
                     !.TargetDuration = TargetAfter(q.TargetDuration, seg.Duration)]),
                     "nil")

\* func (p *MediaPlaylist) Append(uri string, duration float64, title string) error
MediaAppend(q, uri, duration) == AppendSegment(q, NewSeg(uri, duration))

\* SlideRemoves with > for >=.
SlideRemovesLate(q) == ~q.Closed /\ q.count > q.winsize

\* Whether Slide removes the head segment before it appends.
SlideRemoves(q) == ~q.Closed /\ q.count >= q.winsize

\* func (p *MediaPlaylist) Slide(uri string, duration float64, title string)
\* The errors of Remove and Append are dropped: Slide returns nothing.
Slide(q, uri, duration) ==
    LET r1 == IF SlideRemoves(q) THEN Remove(q) ELSE Ret(q, "nil")
        r2 == MediaAppend(r1.p, uri, duration)
    IN  IF r1.panic THEN Panic(r1.p)
        ELSE [p |-> r2.p, err |-> IF r2.panic THEN "panic" ELSE "none", panic |-> r2.panic]

\* func (p *MediaPlaylist) ResetCache()
ResetCache(q) == Ret(Reset(q), "none")

\* ------------------------------------------------------ Text Encoder (media)
\* One line of output: the tag and the values written after it.
Line(tag, args) == [tag |-> tag, args |-> args]

\* The #EXT-X-KEY line of a key: its attributes, not its address.
KeyLine(key) == Line("#EXT-X-KEY", <<key.Keyformat, key.Keyformatversions>>)

\* KeyChanged that compares the attributes of the two keys.
KeyChangedByValue(q, seg) ==
    /\ seg.Key.ref # 0
    /\ <<q.Key.ref # 0, q.Key.Keyformat, q.Key.Keyformatversions>>
          # <<TRUE, seg.Key.Keyformat, seg.Key.Keyformatversions>>

\* seg.Key != nil && p.Key != seg.Key: a comparison of pointers.
KeyChanged(q, seg) == seg.Key.ref # 0 /\ q.Key.ref # seg.Key.ref

\* The #EXT-X-DATERANGE lines of a segment, in list order.
RECURSIVE DateRangeLines(_)
DateRangeLines(drs) ==
    IF Len(drs) = 0 THEN <<>>
    ELSE <<Line("#EXT-X-DATERANGE", <<Head(drs).ID>>)>> \o DateRangeLines(Tail(drs))

\* The custom tag lines of a segment.  Go ranges over the map in no fixed order;
\* the tag names of this model (CustomNames) leave one order only.
CustomLines(custom) ==
    IF DOMAIN custom = {} THEN <<>>
    ELSE <<Line("#CUSTOM", <<custom[1]>>)>>

\* The #EXTINF value: whole seconds (format 0) with durationAsInt, else
\* three decimals (format 3, the value in milliseconds).
ExtInf(q, seg) ==
    IF q.durationAsInt THEN <<0, Ceil(seg.Duration) \div 10>>
    ELSE <<3, seg.Duration * 100>>

\* The lines Encode writes for one non-nil segment.
SegLines(q, seg) ==
       (IF seg.SCTE.ref # 0 THEN <<Line("#EXT-SCTE35", <<seg.SCTE.ref>>)>> ELSE <<>>)
    \o (IF KeyChanged(q, seg) THEN <<KeyLine(seg.Key)>> ELSE <<>>)
    \o DateRangeLines(seg.DateRange)
    \o (IF seg.Discontinuity THEN <<Line("#EXT-X-DISCONTINUITY", <<>>)>> ELSE <<>>)
    \o (IF seg.Gap THEN <<Line("#EXT-X-GAP", <<>>)>> ELSE <<>>)
    \o (IF q.Map.ref = 0 /\ seg.Map.ref # 0
            THEN <<Line("#EXT-X-MAP",
                        IF seg.Map.Limit > 0 THEN <<seg.Map.Limit, seg.Map.Offset>>
                        ELSE <<>>)>>
            ELSE <<>>)
    \o (IF seg.ProgramDateTime # 0
            THEN <<Line("#EXT-X-PROGRAM-DATE-TIME", <<seg.ProgramDateTime>>)>> ELSE <<>>)
    \o (IF seg.Limit > 0
            THEN <<Line("#EXT-X-BYTERANGE", <<seg.Limit, seg.Offset>>)>> ELSE <<>>)
    \o CustomLines(seg.Custom)
    \o <<Line("#EXTINF", ExtInf(q, seg) \o <<seg.URI>>)>>

\* LoopGoesOn that counts the empty slots too: i is taken to be the number of
\* slots visited.
LoopCountsSlots(q, count, i) == (q.count - count < q.winsize \/ q.winsize = 0) /\ count > 0

\* The condition of the segment loop of Encode: i segments written, `count`
\* slots left.
LoopGoesOn(q, count, i) == (i < q.winsize \/ q.winsize = 0) /\ count > 0

\* The segment loop of Encode from slot `head` with `count` slots left and i
\* segments written: the lines, and whether p.Segments[head] was out of range.
RECURSIVE EncodeSegs(_, _, _, _)
EncodeSegs(q, head, count, i) ==
    IF ~LoopGoesOn(q, count, i)
        THEN [out |-> <<>>, panic |-> FALSE]
    ELSE IF ~InRange(q, head) THEN [out |-> <<>>, panic |-> TRUE]
    ELSE
        LET seg == At(q.Segments, head)
            nh == (head + 1) % q.capacity
        IN  IF IsNil(seg) THEN EncodeSegs(q, nh, count - 1, i)
            ELSE LET rest == EncodeSegs(q, nh, count - 1,
                                        IF q.winsize > 0 THEN i + 1 ELSE i)
                 IN  [out |-> SegLines(q, seg) \o rest.out, panic |-> rest.panic]

\* The lines before the segments.
MediaHeader(q) ==
       <<Line("#EXTM3U#EXT-X-VERSION", <<q.ver>>)>>
    \o (IF q.Key.ref # 0 THEN <<KeyLine(q.Key)>> ELSE <<>>)
    \o (IF q.Map.ref # 0
            THEN <<Line("#EXT-X-MAP",
                        IF q.Map.Limit > 0 THEN <<q.Map.Limit, q.Map.Offset>>
                        ELSE <<>>)>>
            ELSE <<>>)
    \o <<Line("#EXT-X-MEDIA-SEQUENCE", <<q.SeqNo>>),
         Line("#EXT-X-TARGETDURATION", <<Ceil(q.TargetDuration) \div 10>>)>>
    \o (IF q.Iframe THEN <<Line("#EXT-X-I-FRAMES-ONLY", <<>>)>> ELSE <<>>)

EndList == Line("#EXT-X-ENDLIST", <<>>)

\* What Encode writes into an empty buffer.
MediaRender(q) ==
    LET body == EncodeSegs(q, q.head, q.count, 0)
    IN  [out |-> MediaHeader(q) \o body.out
                 \o (IF ~body.panic /\ q.Closed THEN <<EndList>> ELSE <<>>),
         panic |-> body.panic]

\* CacheHit that never finds the buffer filled.
CacheNever(buf) == FALSE

\* Whether Encode returns the buffer as it is.
CacheHit(buf) == Len(buf) > 0

\* func (p *MediaPlaylist) Encode() *bytes.Buffer
MediaEncode(q) ==
    IF CacheHit(q.buf) THEN [p |-> q, panic |-> FALSE, rendered |-> FALSE]
    ELSE LET r == MediaRender(q)
         IN  [p |-> [q EXCEPT !.buf = r.out], panic |-> r.panic, rendered |-> TRUE]

\* func (p *MediaPlaylist) Close()
Close(q) ==
    Ret([q EXCEPT !.buf = IF Len(q.buf) > 0 THEN Append(q.buf, EndList) ELSE q.buf,
                  !.Closed = TRUE], "none")

\* -------------------------------------------------- playlist-wide setters
\* func (p *MediaPlaylist) DurationAsInt(yes bool)
DurationAsInt(q, yes) ==
    Ret([(IF yes THEN [q EXCEPT !.ver = version(q.ver, 3)] ELSE q)
            EXCEPT !.durationAsInt = yes], "none")

\* func (p *MediaPlaylist) SetDefaultKey(method, uri, iv, keyformat, keyformatversions string) error
SetDefaultKey(q, ref, keyformat, keyformatversions) ==
    LET q1 == IF keyformat # "" \/ keyformatversions # ""
                 THEN [q EXCEPT !.ver = version(q.ver, 5)] ELSE q
    IN  Ret([q1 EXCEPT !.Key = [ref |-> ref, Keyformat |-> keyformat,
                                Keyformatversions |-> keyformatversions]], "nil")

\* func (p *MediaPlaylist) SetDefaultMap(uri string, limit, offset int64)
SetDefaultMap(q, ref, limit, offset) ==
    Ret([q EXCEPT !.ver = version(q.ver, 5),
                  !.Map = [ref |-> ref, Limit |-> limit, Offset |-> offset]], "none")

\* func (p *MediaPlaylist) SetIframeOnly()
SetIframeOnly(q) ==
    Ret([q EXCEPT !.ver = version(q.ver, 4), !.Iframe = TRUE], "none")

\* func (p *MediaPlaylist) SetVersion(ver uint8)
SetVersion(q, ver) == Ret([q EXCEPT !.ver = ver], "none")

\* --------------------------------------------------- per-segment setters
\* p.Segments[p.last()] can be read and written: the index is in range and the
\* slot holds a segment.  Otherwise the setter panics.
LastOk(q) == InRange(q, last(q)) /\ ~IsNil(At(q.Segments, last(q)))

LastSeg(q) == At(q.Segments, last(q))

\* *p.Segments[p.last()] = seg
WithLast(q, seg) == [q EXCEPT !.Segments[last(q) + 1] = seg]

\* func (p *MediaPlaylist) SetKey(method, uri, iv, keyformat, keyformatversions string) error
\* ref names the Key the call allocates.
SetKey(q, ref, keyformat, keyformatversions) ==
    IF q.count = 0 THEN Ret(q, "playlist is empty")
    ELSE LET q1 == IF keyformat # "" \/ keyformatversions # ""
                      THEN [q EXCEPT !.ver = version(q.ver, 5)] ELSE q
         IN  IF ~LastOk(q1) THEN Panic(q1)
             ELSE Ret(WithLast(q1, [LastSeg(q1) EXCEPT
                          !.Key = [ref |-> ref, Keyformat |-> keyformat,
                                   Keyformatversions |-> keyformatversions]]), "nil")

\* func (p *MediaPlaylist) SetMap(uri string, limit, offset int64) error
SetMap(q, ref, limit, offset) ==
    IF q.count = 0 THEN Ret(q, "playlist is empty")
    ELSE LET q1 == [q EXCEPT !.ver = version(q.ver, 5)]
         IN  IF ~LastOk(q1) THEN Panic(q1)
             ELSE Ret(WithLast(q1, [LastSeg(q1) EXCEPT
                          !.Map = [ref |-> ref, Limit |-> limit, Offset |-> offset]]), "nil")

\* func (p *MediaPlaylist) SetRange(limit, offset int64) error
SetRange(q, limit, offset) ==
    IF q.count = 0 THEN Ret(q, "playlist is empty")
    ELSE LET q1 == [q EXCEPT !.ver = version(q.ver, 4)]
         IN  IF ~LastOk(q1) THEN Panic(q1)
             ELSE Ret(WithLast(q1, [LastSeg(q1) EXCEPT
                          !.Limit = limit, !.Offset = offset]), "nil")

\* func (p *MediaPlaylist) SetSCTE35(scte35 *SCTE) error
SetSCTE35(q, scte35) ==
    IF q.count = 0 THEN Ret(q, "playlist is empty")
    ELSE IF ~LastOk(q) THEN Panic(q)
    ELSE Ret(WithLast(q, [LastSeg(q) EXCEPT !.SCTE = scte35]), "nil")

\* Some DateRange of the list has the empty ID (0).
NoID(drs) == \E i \in 1..Len(drs) : drs[i].ID = 0

\* func (p *MediaPlaylist) SetDateRange(drs []*DateRange) error
SetDateRange(q, drs) ==
    IF q.count = 0 THEN Ret(q, "playlist is empty")
    ELSE IF NoID(drs) THEN Ret(q, "DateRange ID")
    ELSE IF ~LastOk(q) THEN Panic(q)
    ELSE Ret(WithLast(q, [LastSeg(q) EXCEPT !.DateRange = drs]), "nil")

\* func (p *MediaPlaylist) AppendDateRange(dr *DateRange) error
AppendDateRange(q, dr) ==
    IF q.count = 0 THEN Ret(q, "playlist is empty")
    ELSE IF dr.ID = 0 THEN Ret(q, "DateRange ID")
    ELSE IF ~LastOk(q) THEN Panic(q)
    ELSE Ret(WithLast(q, [LastSeg(q) EXCEPT !.DateRange = Append(@, dr)]), "nil")

\* func (p *MediaPlaylist) SetDiscontinuity() error
SetDiscontinuity(q) ==
    IF q.count = 0 THEN Ret(q, "playlist is empty")
    ELSE IF ~LastOk(q) THEN Panic(q)
    ELSE Ret(WithLast(q, [LastSeg(q) EXCEPT !.Discontinuity = TRUE]), "nil")

\* func (p *MediaPlaylist) SetGap() error
SetGap(q) ==
    IF q.count = 0 THEN Ret(q, "playlist is empty")
    ELSE IF ~LastOk(q) THEN Panic(q)
    ELSE Ret(WithLast(q, [LastSeg(q) EXCEPT !.Gap = TRUE]), "nil")

\* func (p *MediaPlaylist) SetProgramDateTime(value time.Time) error
SetProgramDateTime(q, value) ==
    IF q.count = 0 THEN Ret(q, "playlist is empty")
    ELSE IF ~LastOk(q) THEN Panic(q)
    ELSE Ret(WithLast(q, [LastSeg(q) EXCEPT !.ProgramDateTime = value]), "nil")

\* last.Custom[tag.TagName()] = tag
MapPut(f, k, v) == [x \in (DOMAIN f) \cup {k} |-> IF x = k THEN v ELSE f[x]]

\* func (p *MediaPlaylist) SetCustomSegmentTag(tag CustomTag) error
SetCustomSegmentTag(q, name, tag) ==
    IF q.count = 0 THEN Ret(q, "playlist is empty")
    ELSE IF ~LastOk(q) THEN Panic(q)
    ELSE Ret(WithLast(q, [LastSeg(q) EXCEPT !.Custom = MapPut(@, name, tag)]), "nil")

\* ----------------------------------------------------- Master Playlist
\* Strings that Encode joins or compares are sequences of characters.
\* Alternatives a caller attaches to a variant (VariantParams.Alternatives).
Alt(type, group, name, lang) ==
    [Type |-> type, GroupId |-> group, Name |-> name, Language |-> lang]

AltAudioEn == Alt(<<"A">>, <<"g">>, <<"n">>, <<"e">>)
AltAudioFr == Alt(<<"A">>, <<"g">>, <<"n">>, <<"f">>)

\* Two alternatives that differ in group id and name: "g-x", "n" and "g", "x-n".
AltDashGroup == Alt(<<"A">>, <<"g", "-", "x">>, <<"n">>, <<"e">>)
AltDashName == Alt(<<"A">>, <<"g">>, <<"x", "-", "n">>, <<"e">>)

AlternativeLists ==
    {<<>>, <<AltAudioEn>>, <<AltAudioEn, AltAudioFr>>, <<AltDashGroup, AltDashName>>}

\* Session data the caller stores in p.SessionData (an exported field).
SessionData(id, value, lang) == [DataID |-> id, Value |-> value, URI |-> "", Language |-> lang]

\* The lists of session data: none; the same id and language in two cases;
\* the same id twice without a language; one id in two languages.
SessionDataLists ==
    {<<>>,
     <<SessionData(<<"i">>, "v1", <<"e">>), SessionData(<<"I">>, "v2", <<"E">>)>>,
     <<SessionData(<<"i">>, "v1", <<>>), SessionData(<<"i">>, "v2", <<>>)>>,
     <<SessionData(<<"i">>, "v1", <<"e">>), SessionData(<<"i">>, "v2", <<"f">>)>>}

\* The playlist after the caller has assigned p.SessionData.
WithSessionData(q, sd) == [q EXCEPT !.SessionData = sd]

\* NewMasterPlaylist()
NewMasterPlaylist ==
    [ver |-> minver, Variants |-> <<>>, SessionData |-> <<>>, Custom |-> <<>>,
     independentSegments |-> FALSE, buf |-> <<>>]

\* The result of a method call on the master playlist.
MRet(q) == [m |-> q]

\* func (p *MasterPlaylist) Append(uri string, chunklist *MediaPlaylist, params VariantParams)
MasterAppend(q, uri, iframe, alternatives) ==
    LET v == [URI |-> uri, Iframe |-> iframe, Alternatives |-> alternatives]
        q1 == [q EXCEPT !.Variants = Append(@, v)]
        q2 == IF Len(alternatives) > 0 THEN [q1 EXCEPT !.ver = version(q1.ver, 4)] ELSE q1
    IN  MRet(Reset(q2))

\* func (p *MasterPlaylist) ResetCache()
MasterResetCache(q) == MRet(Reset(q))

\* func (p *MasterPlaylist) SetVersion(ver uint8)
MasterSetVersion(q, ver) == MRet([q EXCEPT !.ver = ver])

\* func (p *MasterPlaylist) SetIndependentSegments(b bool)
MasterSetIndependentSegments(q, b) == MRet([q EXCEPT !.independentSegments = b])

\* func (p *MasterPlaylist) SetCustomTag(tag CustomTag)
MasterSetCustomTag(q, name, tag) == MRet([q EXCEPT !.Custom = MapPut(@, name, tag)])

\* strings.ToLower on the letters of the model.
ToLower(str) ==
    [i \in DOMAIN str |->
        CASE str[i] = "I" -> "i"
          [] str[i] = "E" -> "e"
          [] str[i] = "A" -> "a"
          [] OTHER -> str[i]]

\* strings.ToLower(sessionData.DataID) + "-" + strings.ToLower(sessionData.Language)
LanguageWrittenKey(sd) == ToLower(sd.DataID) \o <<"-">> \o ToLower(sd.Language)

\* The entry is left out: it has a language, and its key was written before.
SessionSkipped(sd, written) ==
    Len(sd.Language) # 0 /\ LanguageWrittenKey(sd) \in written

\* The #EXT-X-SESSION-DATA lines, given the keys written so far.
RECURSIVE SessionLines(_, _)
SessionLines(sds, written) ==
    IF Len(sds) = 0 THEN <<>>
    ELSE LET sd == Head(sds)
         IN  IF SessionSkipped(sd, written) THEN SessionLines(Tail(sds), written)
             ELSE <<Line("#EXT-X-SESSION-DATA",
                         <<sd.DataID, sd.Value,
                           IF sd.URI # "" /\ sd.Value = "" THEN sd.URI ELSE "",
                           sd.Language>>)>>
                  \o SessionLines(Tail(sds),
                                  IF Len(sd.Language) # 0
                                     THEN written \cup {LanguageWrittenKey(sd)}
                                     ELSE written)

\* fmt.Sprintf("%s-%s-%s-%s", alt.Type, alt.GroupId, alt.Name, alt.Language)
AltKey(alt) ==
    alt.Type \o <<"-">> \o alt.GroupId \o <<"-">> \o alt.Name \o <<"-">> \o alt.Language

\* The alternative is left out: its key was written before.
AltSkipped(alt, written) == AltKey(alt) \in written

\* The #EXT-X-MEDIA lines of one variant's alternatives, given the keys
\* written so far: the lines and the keys written after them.
RECURSIVE AltLines(_, _)
AltLines(alts, written) ==
    IF Len(alts) = 0 THEN [out |-> <<>>, written |-> written]
    ELSE IF AltSkipped(Head(alts), written) THEN AltLines(Tail(alts), written)
    ELSE LET rest == AltLines(Tail(alts), written \cup {AltKey(Head(alts))})
         IN  [out |-> <<Line("#EXT-X-MEDIA",
                             <<Head(alts).Type, Head(alts).GroupId, Head(alts).Name,
                               Head(alts).Language>>)>> \o rest.out,
              written |-> rest.written]

\* The variant loop of MasterPlaylist.Encode.
RECURSIVE VariantLines(_, _)
VariantLines(variants, written) ==
    IF Len(variants) = 0 THEN <<>>
    ELSE LET pl == Head(variants)
             a == AltLines(pl.Alternatives, written)
         IN  a.out
             \o (IF pl.Iframe
                    THEN <<Line("#EXT-X-I-FRAME-STREAM-INF", <<pl.URI>>)>>
                    ELSE <<Line("#EXT-X-STREAM-INF", <<>>), Line("URI", <<pl.URI>>)>>)
             \o VariantLines(Tail(variants), a.written)

\* What MasterPlaylist.Encode writes into an empty buffer.
MasterRender(q) ==
       <<Line("#EXTM3U#EXT-X-VERSION", <<q.ver>>)>>
    \o (IF q.independentSegments THEN <<Line("#EXT-X-INDEPENDENT-SEGMENTS", <<>>)>> ELSE <<>>)
    \o CustomLines(q.Custom)
    \o SessionLines(q.SessionData, {})
    \o VariantLines(q.Variants, {})

\* func (p *MasterPlaylist) Encode() *bytes.Buffer
MasterEncode(q) ==
    IF CacheHit(q.buf) THEN [m |-> q, rendered |-> FALSE]
    ELSE [m |-> [q EXCEPT !.buf = MasterRender(q)], rendered |-> TRUE]

\* ------------------------------------------------------------ the callers
\* Base sequence numbers the caller starts a playlist with.
SeqNos == {0, 1}

\* `n` segments the caller builds after it has built `made` ones.
FreshSegs(made, n) == [i \in 1..n |-> NewSeg(made + i, 20)]

DR(id) == [ID |-> id]

\* Arguments of SetDateRange and AppendDateRange: ID 0 is the empty ID.
DateRangeLists == {<<DR(1)>>, <<DR(1), DR(0)>>}
DateRanges == {DR(2), DR(0)}

\* Byte ranges (limit, offset) passed to SetMap and SetRange.
ByteRanges == {<<0, 0>>, <<10, 5>>}

\* The keyformat and keyformatversions arguments of SetKey and SetDefaultKey.
KeyFormats == {<<"", "">>, <<"kf", "">>, <<"", "1">>}

\* The first Key and the Map that SetDefaultKey and SetDefaultMap allocate:
\* no key that SetKey allocates is the same pointer.
DefaultRef == 9

\* The Key the next SetDefaultKey call allocates: a new pointer every time.
NextDefaultRef(q) == IF q.Key.ref = 0 THEN DefaultRef ELSE q.Key.ref + 1

\* The first Key the caller allocates for a segment it builds itself.
CallerRef == 20

\* Names and values of custom tags.
CustomNames == {1}
CustomTags == {1, 2}

\* The longest run of equal calls that hist counts.
RunCap == MaxSegs + 1

\* Where a run of calls starts: at the new playlist, at a full one, elsewhere.
StartClass ==
    IF lastCall = "New" THEN "new"
    ELSE IF p.count = p.capacity /\ p.count > 0 THEN "full"
    ELSE "other"

\* hist after `call`: the calls of a run are counted while the run started at
\* the new playlist or at a full one.
Record(call) ==
    /\ budget # 0
    /\ budget' = IF budget > 0 THEN budget - 1 ELSE budget
    /\ lastCall' = call
    /\ hist' = IF lastCall = call
                  THEN IF hist.from = "other" THEN hist
                       ELSE [hist EXCEPT !.n = IF @ < RunCap THEN @ + 1 ELSE @]
                  ELSE IF StartClass = "other" THEN [from |-> "other", n |-> 0]
                       ELSE [from |-> StartClass, n |-> 1]

\* One call on the media playlist with result r.
MediaCallArg(call, arg, r) ==
    /\ obj = "media"
    /\ ~panicked
    /\ p' = r.p
    /\ lastErr' = r.err
    /\ panicked' = r.panic
    /\ rendered' = FALSE
    /\ lastArg' = arg
    /\ Record(call)
    /\ UNCHANGED <<obj, m>>

MediaCall(call, r) == MediaCallArg(call, 0, r)

\* One setter call: the successful ones are counted.
SetterCall(call, r) ==
    /\ (r.err = "nil" /\ ~r.panic) => nsets < MaxSets
    /\ nsets' = IF r.err = "nil" /\ ~r.panic THEN nsets + 1 ELSE nsets
    /\ MediaCall(call, r)
    /\ UNCHANGED nsegs

\* What holds of every initial state.
InitCommon ==
    /\ lastCall = "New"
    /\ panicked = FALSE
    /\ rendered = FALSE
    /\ hist = [from |-> "new", n |-> 0]
    /\ nsegs = 0
    /\ nsets = 0

\* The program has built a media playlist.
InitMedia ==
    /\ obj = "media"
    /\ \E capacity \in 1..NewCap : \E winsize \in 0..capacity : \E seqNo \in SeqNos :
          /\ p = WithSeqNo(NewMediaPlaylist(winsize, capacity).p, seqNo)
          /\ lastArg = winsize
          /\ lastErr = NewMediaPlaylist(winsize, capacity).err
    /\ m = NewMasterPlaylist
    /\ InitCommon

DoAppend ==
    /\ nsegs < MaxSegs
    /\ \E duration \in Durations : MediaCall("Append", MediaAppend(p, nsegs + 1, duration))
    /\ nsegs' = nsegs + 1
    /\ UNCHANGED nsets

DoRemove ==
    /\ MediaCall("Remove", Remove(p))
    /\ UNCHANGED <<nsegs, nsets>>

DoSlide ==
    /\ nsegs < MaxSegs
    /\ \E duration \in Durations : MediaCall("Slide", Slide(p, nsegs + 1, duration))
    /\ nsegs' = nsegs + 1
    /\ UNCHANGED nsets

DoInsertSegments ==
    \E n \in 0..MaxCap : \E seqID \in 0..(Len(p.Segments) + 1) :
        /\ p.capacity + n <= MaxCap
        /\ nsegs + n <= MaxSegs
        /\ n = 0 => seqID = 0
        /\ MediaCallArg("InsertSegments", seqID, InsertSegments(p, FreshSegs(nsegs, n), seqID))
        /\ nsegs' = nsegs + n
        /\ UNCHANGED nsets

DoSetMediaSegments ==
    \E n \in 0..MaxCap :
        /\ nsegs + n <= MaxSegs
        /\ MediaCall("SetMediaSegments", SetMediaSegments(p, FreshSegs(nsegs, n)))
        /\ nsegs' = nsegs + n
        /\ UNCHANGED nsets

DoSetWinSize ==
    /\ \E winsize \in 0..(p.capacity + 1) :
          MediaCallArg("SetWinSize", winsize, SetWinSize(p, winsize))
    /\ UNCHANGED <<nsegs, nsets>>

DoResetCache ==
    /\ MediaCall("ResetCache", ResetCache(p))
    /\ UNCHANGED <<nsegs, nsets>>

DoClose ==
    /\ MediaCall("Close", Close(p))
    /\ UNCHANGED <<nsegs, nsets>>

DoEncode ==
    /\ obj = "media"
    /\ ~panicked
    /\ LET r == MediaEncode(p)
       IN  /\ p' = r.p
           /\ panicked' = r.panic
           /\ rendered' = r.rendered
    /\ lastErr' = "none"
    /\ lastArg' = 0
    /\ Record("Encode")
    /\ UNCHANGED <<obj, m, nsegs, nsets>>

DoSetKey ==
    \E kf \in KeyFormats : SetterCall("SetKey", SetKey(p, nsets + 1, kf[1], kf[2]))

DoSetMap ==
    \E br \in ByteRanges : SetterCall("SetMap", SetMap(p, nsets + 1, br[1], br[2]))

DoSetRange ==
    \E br \in ByteRanges : SetterCall("SetRange", SetRange(p, br[1], br[2]))

DoSetSCTE35 ==
    SetterCall("SetSCTE35", SetSCTE35(p, [ref |-> nsets + 1, Cue |-> "cue"]))

DoSetDateRange ==
    \E drs \in DateRangeLists : SetterCall("SetDateRange", SetDateRange(p, drs))

DoAppendDateRange ==
    \E dr \in DateRanges : SetterCall("AppendDateRange", AppendDateRange(p, dr))

DoSetDiscontinuity == SetterCall("SetDiscontinuity", SetDiscontinuity(p))

DoSetGap == SetterCall("SetGap", SetGap(p))

DoSetProgramDateTime ==
    SetterCall("SetProgramDateTime", SetProgramDateTime(p, 7))

DoSetCustomSegmentTag ==
    \E name \in CustomNames : \E tag \in CustomTags :
        SetterCall("SetCustomSegmentTag", SetCustomSegmentTag(p, name, tag))

DoDurationAsInt ==
    /\ \E yes \in BOOLEAN : MediaCall("DurationAsInt", DurationAsInt(p, yes))
    /\ UNCHANGED <<nsegs, nsets>>

DoSetDefaultKey ==
    /\ \E kf \in KeyFormats :
          MediaCall("SetDefaultKey", SetDefaultKey(p, NextDefaultRef(p), kf[1], kf[2]))
    /\ UNCHANGED <<nsegs, nsets>>

DoSetDefaultMap ==
    /\ \E br \in ByteRanges :
          MediaCall("SetDefaultMap", SetDefaultMap(p, DefaultRef, br[1], br[2]))
    /\ UNCHANGED <<nsegs, nsets>>

DoSetIframeOnly ==
    /\ MediaCall("SetIframeOnly", SetIframeOnly(p))
    /\ UNCHANGED <<nsegs, nsets>>

DoSetVersion ==
    /\ \E ver \in {2, 5} : MediaCall("SetVersion", SetVersion(p, ver))
    /\ UNCHANGED <<nsegs, nsets>>

\* One call on the master playlist with result r.
MasterCall(call, r) ==
    /\ obj = "master"
    /\ m' = r.m
    /\ lastErr' = "none"
    /\ lastArg' = 0
    /\ rendered' = FALSE
    /\ Record(call)
    /\ UNCHANGED <<obj, p, panicked, nsegs, nsets>>

DoMasterAppend ==
    /\ Len(m.Variants) < MaxVariants
    /\ \E iframe \in BOOLEAN : \E alternatives \in AlternativeLists :
          MasterCall("Master.Append",
                     MasterAppend(m, Len(m.Variants) + 1, iframe, alternatives))

DoMasterResetCache == MasterCall("Master.ResetCache", MasterResetCache(m))

DoMasterSetVersion ==
    \E ver \in {minver, 5} : MasterCall("Master.SetVersion", MasterSetVersion(m, ver))

DoMasterSetIndependentSegments ==
    \E b \in BOOLEAN :
        MasterCall("Master.SetIndependentSegments", MasterSetIndependentSegments(m, b))

DoMasterSetCustomTag ==
    \E name \in CustomNames : \E tag \in CustomTags :
        MasterCall("Master.SetCustomTag", MasterSetCustomTag(m, name, tag))

DoMasterEncode ==
    /\ obj = "master"
    /\ LET r == MasterEncode(m)
       IN  /\ m' = r.m
           /\ rendered' = r.rendered
    /\ lastErr' = "none"
    /\ lastArg' = 0
    /\ Record("Master.Encode")
    /\ UNCHANGED <<obj, p, panicked, nsegs, nsets>>

\* The segment ring buffer under Append, Remove, Slide, InsertSegments and
\* SetMediaSegments.
Next ==
    \/ DoAppend
    \/ DoRemove
    \/ DoSlide
    \/ DoInsertSegments
    \/ DoSetMediaSegments

\* A media playlist and no limit on the number of calls.
Init ==
    /\ InitMedia
    /\ budget = -1

Spec == Init /\ [][Next]_vars

\* The program has called NewMasterPlaylist or NewMediaPlaylist, the latter
\* with any window size up to capacity + 1, and makes at most MaxCalls calls
\* on the playlist it got.  obj = "none": NewMediaPlaylist returned nil, the
\* program has no playlist to call.
InitAll ==
    /\ \/ /\ obj = "master"
          /\ \E sd \in SessionDataLists : m = WithSessionData(NewMasterPlaylist, sd)
          /\ p = ZeroPlaylist
          /\ lastArg = 0
          /\ lastErr = "nil"
       \/ \E capacity \in 1..NewCap : \E winsize \in 0..(capacity + 1) :
             LET r == NewMediaPlaylist(winsize, capacity)
             IN  /\ obj = IF r.err = "nil" THEN "media" ELSE "none"
                 /\ p = r.p
                 /\ m = NewMasterPlaylist
                 /\ lastArg = winsize
                 /\ lastErr = r.err
    /\ InitCommon
    /\ budget = MaxCalls

\* Every method of the two playlists, with the cached encodings.
NextAll ==
    \/ DoAppend
    \/ DoRemove
    \/ DoSlide
    \/ DoInsertSegments
    \/ DoSetMediaSegments
    \/ DoSetWinSize
    \/ DoResetCache
    \/ DoClose
    \/ DoEncode
    \/ DoSetKey
    \/ DoSetMap
    \/ DoSetRange
    \/ DoSetSCTE35
    \/ DoSetDateRange
    \/ DoAppendDateRange
    \/ DoSetDiscontinuity
    \/ DoSetGap
    \/ DoSetProgramDateTime
    \/ DoSetCustomSegmentTag
    \/ DoDurationAsInt
    \/ DoSetDefaultKey
    \/ DoSetDefaultMap
    \/ DoSetIframeOnly
    \/ DoSetVersion
    \/ DoMasterAppend
    \/ DoMasterResetCache
    \/ DoMasterSetVersion
    \/ DoMasterSetIndependentSegments
    \/ DoMasterSetCustomTag
    \/ DoMasterEncode

SpecAll == InitAll /\ [][NextAll]_vars

\* Segment durations of a live stream: 4.0 s, 4.5 s, 5.0 s and 6.0 s.
LiveDurations == {40, 45, 50, 60}

\* Append of a segment with one of the durations of a live stream.
DoAppendTimed ==
    /\ nsegs < MaxSegs
    /\ \E duration \in LiveDurations :
          MediaCall("Append", MediaAppend(p, nsegs + 1, duration))
    /\ nsegs' = nsegs + 1
    /\ UNCHANGED nsets

\* Slide of a segment with one of the durations of a live stream.
DoSlideTimed ==
    /\ nsegs < MaxSegs
    /\ \E duration \in LiveDurations :
          MediaCall("Slide", Slide(p, nsegs + 1, duration))
    /\ nsegs' = nsegs + 1
    /\ UNCHANGED nsets

\* A new media playlist of any capacity up to MaxCap, with target duration 0,
\* and no limit on the number of calls.
InitTimed ==
    /\ obj = "media"
    /\ \E capacity \in 1..MaxCap : \E winsize \in 0..capacity : \E seqNo \in SeqNos :
          /\ p = WithSeqNo(NewMediaPlaylist(winsize, capacity).p, seqNo)
          /\ lastArg = winsize
          /\ lastErr = NewMediaPlaylist(winsize, capacity).err
    /\ m = NewMasterPlaylist
    /\ InitCommon
    /\ budget = -1

\* A live playlist: Append, Remove and Slide of segments of several
\* durations, and Encode.
NextTimed ==
    \/ DoAppendTimed
    \/ DoRemove
    \/ DoSlideTimed
    \/ DoEncode

SpecTimed == InitTimed /\ [][NextTimed]_vars

\* The keys of a segment the caller builds itself: none, the playlist's
\* default key (the same pointer), or a new Key with attributes of its own.
CallerKeys(q, ref) ==
    {NilKey, q.Key}
        \cup {[ref |-> ref, Keyformat |-> kf[1], Keyformatversions |-> kf[2]] : kf \in KeyFormats}

\* AppendSegment of a segment the caller has built, with its Key field set.
DoAppendSegment ==
    /\ nsegs < MaxSegs
    /\ \E key \in CallerKeys(p, CallerRef + nsegs) :
          MediaCall("AppendSegment",
                    AppendSegment(p, [NewSeg(nsegs + 1, 20) EXCEPT !.Key = key]))
    /\ nsegs' = nsegs + 1
    /\ UNCHANGED nsets

\* A new media playlist and at most MaxCalls + 1 calls.
InitKeys ==
    /\ InitMedia
    /\ budget = MaxCalls + 1

\* Keys: the default key, segments with and without keys, and Encode.
NextKeys ==
    \/ DoSetDefaultKey
    \/ DoAppendSegment
    \/ DoSetKey
    \/ DoRemove
    \/ DoEncode

SpecKeys == InitKeys /\ [][NextKeys]_vars

\* ================================================================ claims
Max(a, b) == IF a > b THEN a ELSE b

\* Slot i of q.Segments, nil when i is no index of the slice.
SlotOrNil(q, i) == IF InRange(q, i) THEN At(q.Segments, i) ELSE NilSeg

\* The live window: the slots read from head for count slots modulo capacity.
Live(q) ==
    [i \in 1..q.count |->
        IF q.capacity > 0 THEN SlotOrNil(q, (q.head + i - 1) % q.capacity) ELSE NilSeg]

\* The sequence ids of the non-nil slots of q.Segments strictly increase in slot order.
IdsIncrease(q) ==
    \A i, j \in 1..Len(q.Segments) :
        (i < j /\ ~IsNil(q.Segments[i]) /\ ~IsNil(q.Segments[j]))
            => q.Segments[i].SeqId < q.Segments[j].SeqId

\* The step is a successful InsertSegments call.
InsertStep == lastCall' = "InsertSegments" /\ lastErr' = "nil" /\ nsegs' > nsegs

\* The slot index of the first segment the InsertSegments step inserted.
InsertedAt == CHOOSE i \in 0..Len(p'.Segments) :
                 i < Len(p'.Segments) /\ At(p'.Segments, i).URI = nsegs + 1

\* C1: in every reachable state 0 <= count <= C, head and tail are in [0, C),
\* count = 0 implies head = tail, and count = C exactly when head = tail and
\* count > 0.
C1_RingInvariant ==
    /\ 0 <= p.count /\ p.count <= p.capacity
    /\ 0 <= p.head /\ p.head < p.capacity
    /\ 0 <= p.tail /\ p.tail < p.capacity
    /\ p.count = 0 => p.head = p.tail
    /\ (p.count = p.capacity) <=> (p.head = p.tail /\ p.count > 0)

\* C2: from a new playlist of capacity C with base sequence number s, the
\* first C Append calls succeed and give the ids s, s+1, ..., s+C-1 in call
\* order; every further Append fails with ErrPlaylistFull and changes nothing.
C2_AppendRun ==
    (lastCall = "Append" /\ hist.from = "new") =>
        LET k == IF hist.n <= p.capacity THEN hist.n ELSE p.capacity
        IN  /\ ~panicked
            /\ lastErr = (IF hist.n <= p.capacity THEN "nil" ELSE "ErrPlaylistFull")
            /\ p.count = k
            /\ \A i \in 0..(k - 1) :
                  /\ At(p.Segments, i).URI = i + 1
                  /\ At(p.Segments, i).SeqId = p.SeqNo + i

C2_Witness ==
    /\ lastCall = "Append" /\ hist.from = "new"
    /\ p.capacity = 2 /\ hist.n = 3 /\ lastErr = "ErrPlaylistFull"
    /\ p.SeqNo = 1 /\ At(p.Segments, 1).SeqId = 2

\* C3: Remove on an empty playlist fails with the playlist-empty error; on a
\* full playlist of capacity C, C consecutive Remove calls succeed, then
\* count = 0 and the next Append succeeds.
C3_RemoveDrain ==
    [][ /\ (lastCall' = "Remove" /\ p.count = 0)
            => (lastErr' = "playlist is empty" /\ p' = p)
        /\ (lastCall' = "Remove" /\ hist'.from = "full" /\ hist'.n <= p.capacity)
            => (lastErr' = "nil" /\ p'.count = p.capacity - hist'.n)
        /\ (lastCall = "Remove" /\ hist.from = "full" /\ hist.n = p.capacity
                /\ lastCall' = "Append")
            => (p.count = 0 /\ lastErr' = "nil" /\ ~panicked' /\ p'.count = 1)
      ]_vars

\* C4: on a playlist created empty and mutated only by Slide, the live count
\* is at most max(W, 1) after every Slide call.
C4_SlideWindow ==
    (lastCall = "Slide" /\ hist.from = "new") =>
        (~panicked /\ p.count <= Max(p.winsize, 1))

C4_Witness ==
    /\ lastCall = "Slide" /\ hist.from = "new" /\ hist.n = 4
    /\ p.winsize = 1 /\ p.capacity = 2 /\ p.count = 1 /\ p.SeqNo >= 3

\* C5: on an open playlist whose live count equals its window size (so that
\* there is a segment to evict), one Slide call evicts the segment at head and
\* admits the new one at the tail: the count is unchanged and SeqNo grows by 1.
C5_SlideAtWindow ==
    [][ (lastCall' = "Slide" /\ ~p.Closed /\ p.count = p.winsize /\ p.count > 0)
            => /\ ~panicked'
               /\ p'.count = p.count
               /\ p'.SeqNo = p.SeqNo + 1
               /\ Len(Live(p')) = Len(Live(p))
               /\ \A i \in 1..(p.count - 1) : Live(p')[i].URI = Live(p)[i + 1].URI
               /\ Live(p')[p.count].URI = nsegs + 1
      ]_vars

\* C6: after a successful InsertSegments on a playlist filled by Append calls
\* only, the sequence ids of the non-empty slots strictly increase in slot
\* order, and the inserted segments carry the ids insertIndex+1, ...,
\* insertIndex+len(segments).
C6_InsertOrdered ==
    [][ (InsertStep /\ lastCall = "Append" /\ hist.from = "new")
            => /\ IdsIncrease(p')
               /\ \A k \in 1..(nsegs' - nsegs) :
                     /\ At(p'.Segments, InsertedAt + k - 1).URI = nsegs + k
                     /\ At(p'.Segments, InsertedAt + k - 1).SeqId = InsertedAt + k
      ]_vars

\* The slot index of the segment named uri in q.Segments.
SlotOf(q, uri) == CHOOSE i \in 0..(Len(q.Segments) - 1) : At(q.Segments, i).URI = uri

\* The segments in the slots of q.Segments.
Stored(q) == {q.Segments[i].URI : i \in 1..Len(q.Segments)} \ {0}

C8_EncodeTwice ==
    [][ /\ (lastCall = "Encode" /\ lastCall' = "Encode")
            => (Len(p.buf) > 0 /\ p'.buf = p.buf /\ ~rendered')
        /\ (lastCall = "Master.Encode" /\ lastCall' = "Master.Encode")
            => (Len(m.buf) > 0 /\ m'.buf = m.buf /\ ~rendered')
      ]_vars

C8_Witness ==
    /\ lastCall = "Encode" /\ ~rendered /\ budget = MaxCalls - 3
    /\ p.count = 1 /\ Len(p.buf) = 4

\* The mutating methods of the media playlist that C9 names.
SegmentSetters ==
    {"SetKey", "SetMap", "SetRange", "SetSCTE35", "SetDateRange", "AppendDateRange",
     "SetDiscontinuity", "SetGap", "SetProgramDateTime", "SetCustomSegmentTag"}

RingMutators == {"Append", "InsertSegments", "SetMediaSegments", "Remove", "Slide"}

\* C9: every successful mutating call on a media playlist leaves the cached
\* encoding empty: Append, InsertSegments, SetMediaSegments, Remove, Slide and
\* the per-segment setters.  (A Slide on a closed and full playlist mutates
\* nothing and is left out.)
C9_MutatorsResetCache ==
    (/\ lastCall \in RingMutators \cup SegmentSetters
     /\ lastErr \in {"nil", "none"}
     /\ ~(lastCall = "Slide" /\ p.Closed /\ IsFull(p)))
        => p.buf = <<>>

\* C10: a media playlist call that returns an error leaves the playlist as it
\* was, the version and the cached encoding included.
C10_ErrorsChangeNothing ==
    [][ (obj = "media" /\ lastErr' \notin {"nil", "none", "panic"})
            => (p' = p /\ ~panicked')
      ]_vars

C10_Witness ==
    /\ lastCall = "Append" /\ lastErr = "ErrPlaylistFull"
    /\ Len(p.buf) > 0 /\ p.count = p.capacity

\* The durations of the live segments of q, from head on.
LiveDurationsOf(q) == {Live(q)[i].Duration : i \in 1..q.count}

\* C11: across Append, Remove and Slide calls on a playlist whose target
\* duration starts at 0 the target duration never decreases: a successful
\* Append sets it to max(previous value, ceil(segment duration)), and Remove
\* leaves it as it is, also when the removed segment was the longest one.
C11_TargetDuration ==
    [][ /\ p'.TargetDuration >= p.TargetDuration
        /\ (lastCall' = "Append" /\ lastErr' = "nil")
              => p'.TargetDuration
                    = Max(p.TargetDuration, Ceil(At(p'.Segments, last(p')).Duration))
        /\ (lastCall' = "Slide" /\ ~panicked')
              => p'.TargetDuration
                    = Max(p.TargetDuration, Ceil(At(p'.Segments, last(p')).Duration))
        /\ lastCall' = "Remove" => p'.TargetDuration = p.TargetDuration
      ]_vars

C11_Witness ==
    /\ lastCall = "Remove" /\ lastErr = "nil"
    /\ p.TargetDuration = 60 /\ p.count = 2
    /\ LiveDurationsOf(p) = {45, 40}

\* The lines of buf with the given tag.
LinesOf(buf, tag) == SelectSeq(buf, LAMBDA l : l.tag = tag)

\* The URIs of the segment entries of buf, in output order.
EntryURIs(buf) ==
    LET e == LinesOf(buf, "#EXTINF")
    IN  [i \in 1..Len(e) |-> e[i].args[Len(e[i].args)]]

\* The playlist of capacity 3 and window size 2 after Append of A (4.0 s),
\* B (6.0 s) and C (5.0 s) and an Encode call.
ScenarioABC ==
    /\ lastCall = "Encode" /\ ~panicked
    /\ p.capacity = 3 /\ p.winsize = 2 /\ p.SeqNo = 0
    /\ nsegs = 3 /\ p.count = 3 /\ p.head = 0
    /\ At(p.Segments, 0).URI = 1 /\ At(p.Segments, 0).Duration = 40
    /\ At(p.Segments, 1).URI = 2 /\ At(p.Segments, 1).Duration = 60
    /\ At(p.Segments, 2).URI = 3 /\ At(p.Segments, 2).Duration = 50

VersionSetters == {"SetVersion", "Master.SetVersion"}

\* The key has a keyformat or keyformatversions attribute.
HasFormat(key) == key.Keyformat # "" \/ key.Keyformatversions # ""

\* C13: no call but SetVersion lowers the stored version, and right after a
\* successful feature-using call the version is at least the feature's
\* threshold: 5 for a default or per-segment key with keyformat or
\* keyformatversions, 5 for a default or per-segment map, 4 for SetIframeOnly
\* and SetRange, 3 for DurationAsInt(true), 4 for a master Append of a variant
\* with alternatives.
C13_VersionRaised ==
    [][ /\ lastCall' \notin VersionSetters => (p'.ver >= p.ver /\ m'.ver >= m.ver)
        /\ (lastCall' = "SetDefaultKey" /\ HasFormat(p'.Key)) => p'.ver >= 5
        /\ (lastCall' = "SetKey" /\ lastErr' = "nil" /\ HasFormat(LastSeg(p').Key))
              => p'.ver >= 5
        /\ lastCall' = "SetDefaultMap" => p'.ver >= 5
        /\ (lastCall' = "SetMap" /\ lastErr' = "nil") => p'.ver >= 5
        /\ lastCall' = "SetIframeOnly" => p'.ver >= 4
        /\ (lastCall' = "SetRange" /\ lastErr' = "nil") => p'.ver >= 4
        /\ (lastCall' = "DurationAsInt" /\ p'.durationAsInt) => p'.ver >= 3
        /\ (lastCall' = "Master.Append"
                /\ Len(m'.Variants[Len(m'.Variants)].Alternatives) > 0) => m'.ver >= 4
      ]_vars

C13_Witness ==
    /\ lastCall = "SetIframeOnly" /\ p.Iframe
    /\ p.Map.ref # 0 /\ p.ver = 5

CapacityError == "capacity must be greater than winsize or equal"

\* C14: SetWinSize(w) fails with the capacity error exactly when w is greater
\* than the capacity and then leaves the window size (and the playlist) as it
\* was; otherwise it sets the window size to w and nothing else.
\* NewMediaPlaylist(winsize, capacity) fails the same way exactly when
\* winsize > capacity, and else returns a playlist with that window size.
C14_WinSize ==
    /\ [](  (lastCall = "New" /\ obj # "master")
            => IF lastArg > p.capacity
                  THEN lastErr = CapacityError /\ obj = "none"
                  ELSE /\ lastErr = "nil" /\ obj = "media"
                       /\ p.winsize = lastArg /\ Len(p.Segments) = p.capacity )
    /\ [][ lastCall' = "SetWinSize"
            => IF lastArg' > p.capacity
                  THEN lastErr' = CapacityError /\ p' = p
                  ELSE lastErr' = "nil" /\ p' = [p EXCEPT !.winsize = lastArg']
         ]_vars

C14_Witness ==
    /\ lastCall = "SetWinSize" /\ lastErr = CapacityError
    /\ lastArg = p.capacity + 1 /\ p.capacity = 3 /\ p.winsize = 2

\* C15: in every reachable state of a media playlist the window size is at
\* most the capacity, also after InsertSegments and SetMediaSegments have
\* changed the capacity.
C15_WindowWithinCapacity == p.winsize <= p.capacity

\* q with the fields a per-segment setter may change (the slots, and the
\* version that SetKey, SetMap and SetRange raise) set to those of r.
SameButSegments(q, r) == [q EXCEPT !.Segments = r.Segments, !.ver = r.ver] = r

\* C16: every per-segment setter fails with the playlist-empty error when
\* count = 0; when count > 0 it changes only the segment in slot
\* (tail - 1) mod C, which is the most recently added live segment, also
\* right after tail has wrapped to 0.
C16_SettersTargetLast ==
    [][ lastCall' \in SegmentSetters
            => IF p.count = 0
                  THEN lastErr' = "playlist is empty" /\ p' = p
                  ELSE LET i == (p.tail + p.capacity - 1) % p.capacity
                       IN  /\ ~panicked'
                           /\ SameButSegments(p, p')
                           /\ Len(p'.Segments) = Len(p.Segments)
                           /\ \A j \in 0..(Len(p.Segments) - 1) :
                                 j # i => At(p'.Segments, j) = At(p.Segments, j)
                           /\ ~IsNil(At(p.Segments, i))
                           /\ At(p.Segments, i) = Live(p)[p.count]
      ]_vars

\* The number of end-list lines in buf.
EndLists(buf) == Len(LinesOf(buf, "#EXT-X-ENDLIST"))

\* C17: after Close has been called one or more times on a media playlist,
\* in any interleaving with Encode calls, the bytes that Encode returns hold
\* the end-list tag exactly once, as the last line, and are equal to a full
\* re-render of the closed playlist.
C17_CloseEndsOnce ==
    (/\ obj = "media" /\ ~panicked /\ p.Closed
     /\ lastCall \in {"Close", "Encode"}
     /\ ~MediaEncode(p).panic)
        => LET bytes == MediaEncode(p).p.buf
           IN  /\ EndLists(bytes) = 1
               /\ bytes[Len(bytes)] = EndList
               /\ bytes = MediaRender(p).out

\* C18: on an open playlist each successful Remove advances head by one
\* modulo C, decrements count and increments SeqNo; on a closed playlist it
\* still advances head and decrements count but leaves SeqNo as it is; and no
\* Append, Remove, Slide or setter call makes a closed playlist open again.
C18_RemoveAndClosed ==
    [][ /\ (lastCall' = "Remove" /\ lastErr' = "nil")
            => /\ p'.head = (p.head + 1) % p.capacity
               /\ p'.count = p.count - 1
               /\ p'.SeqNo = IF p.Closed THEN p.SeqNo ELSE p.SeqNo + 1
        /\ (p.Closed /\ lastCall' \in {"Append", "Remove", "Slide"} \cup SegmentSetters)
            => p'.Closed
      ]_vars

C18_Witness ==
    /\ lastCall = "Remove" /\ lastErr = "nil" /\ p.Closed
    /\ p.capacity = 2 /\ p.head = 1 /\ p.count = 0 /\ p.SeqNo = 0

\* The elements of seq without those that occurred before, in order.
RECURSIVE FirstOccurrences(_, _)
FirstOccurrences(seq, seen) ==
    IF Len(seq) = 0 THEN <<>>
    ELSE IF Head(seq) \in seen THEN FirstOccurrences(Tail(seq), seen)
    ELSE <<Head(seq)>> \o FirstOccurrences(Tail(seq), seen \cup {Head(seq)})

\* The (type, group-id, name, language) tuples of the alternatives of all
\* variants, in iteration order.
RECURSIVE AltTuples(_)
AltTuples(variants) ==
    IF Len(variants) = 0 THEN <<>>
    ELSE [i \in 1..Len(Head(variants).Alternatives) |->
             LET alt == Head(variants).Alternatives[i]
             IN  <<alt.Type, alt.GroupId, alt.Name, alt.Language>>]
         \o AltTuples(Tail(variants))

\* The values written after the tag, for each line of buf with that tag.
ArgsOf(buf, tag) == [i \in 1..Len(LinesOf(buf, tag)) |-> LinesOf(buf, tag)[i].args]

\* C19: MasterPlaylist.Encode writes exactly one EXT-X-MEDIA line for each
\* distinct (type, group-id, name, language) tuple among the alternatives of
\* all variants, the first occurrence in iteration order: equal tuples are
\* written once, tuples that differ in any component are each written.
C19_MediaOncePerTuple ==
    (lastCall = "Master.Encode" /\ rendered)
        => ArgsOf(m.buf, "#EXT-X-MEDIA") = FirstOccurrences(AltTuples(m.Variants), {})

\* The (data-id, language) pair of a session data entry, letter case dropped.
SessionPair(sd) == <<ToLower(sd.DataID), ToLower(sd.Language)>>

\* The entries of sds whose pair did not occur before, in list order.
RECURSIVE KeptSessions(_, _)
KeptSessions(sds, seen) ==
    IF Len(sds) = 0 THEN <<>>
    ELSE IF SessionPair(Head(sds)) \in seen THEN KeptSessions(Tail(sds), seen)
    ELSE <<Head(sds)>> \o KeptSessions(Tail(sds), seen \cup {SessionPair(Head(sds))})

\* C20: MasterPlaylist.Encode writes at most one EXT-X-SESSION-DATA line per
\* (data-id, language) pair compared case-insensitively: the first entry in
\* list order is written, later duplicates are left out of the output only;
\* this holds whatever the language is, the empty language included.
C20_SessionDataOncePerPair ==
    (lastCall = "Master.Encode" /\ rendered)
        => LET kept == KeptSessions(m.SessionData, {})
           IN  /\ ArgsOf(m.buf, "#EXT-X-SESSION-DATA")
                     = [i \in 1..Len(kept) |->
                           <<kept[i].DataID, kept[i].Value, kept[i].URI, kept[i].Language>>]
               /\ m.SessionData \in SessionDataLists

MasterMutators ==
    {"Master.Append", "Master.SetCustomTag", "Master.SetVersion",
     "Master.SetIndependentSegments"}

\* C21: after any MasterPlaylist mutation (Append of a variant, SetCustomTag,
\* SetVersion, SetIndependentSegments) the cached encoding is cleared: the next
\* Encode returns the rendering of the current state, never the bytes cached
\* before the mutation.
C21_MasterMutatorsResetCache ==
    (obj = "master" /\ lastCall \in MasterMutators)
        => /\ m.buf = <<>>
           /\ MasterEncode(m).m.buf = MasterRender(m)

\* The slots Encode visits: count slots from head in increasing index modulo
\* capacity.
Visited(q) == [k \in 1..q.count |-> (q.head + k - 1) % q.capacity]

\* The segments of the non-empty slots visited, in that order.
VisitedSegs(q) ==
    LET v == Visited(q)
        slots == SelectSeq(v, LAMBDA i : ~IsNil(SlotOrNil(q, i)))
    IN  [k \in 1..Len(slots) |-> At(q.Segments, slots[k])]

\* C22: a fresh Encode lists segment entries by walking the slots from head in
\* increasing index modulo capacity for at most count slots: with W > 0 it
\* emits the first min(W, number of non-empty slots visited) non-empty
\* segments, with W = 0 every non-empty live segment; an empty slot is skipped
\* and does not count against W.
C22_EncodeWindow ==
    (obj = "media" /\ lastCall = "Encode" /\ rendered /\ ~panicked)
        => LET segs == VisitedSegs(p)
               n == IF p.winsize > 0 /\ p.winsize < Len(segs) THEN p.winsize ELSE Len(segs)
           IN  EntryURIs(p.buf) = [k \in 1..n |-> segs[k].URI]

C22_Witness ==
    /\ lastCall = "Encode" /\ rendered /\ ~panicked
    /\ p.winsize = 1 /\ p.count = 3 /\ Len(VisitedSegs(p)) = 2
    /\ IsNil(At(p.Segments, p.head))
    /\ Len(EntryURIs(p.buf)) = 1

\* C23: for an open playlist mutated only by Append, Remove and Slide,
\* whenever count > 0 SeqNo is the sequence id of the segment at head and the
\* live segments carry the ids SeqNo, SeqNo+1, ..., SeqNo+count-1 in slot
\* order from head, over wrap-arounds and after the buffer was emptied and
\* refilled.
C23_SeqNoIsHeadId ==
    (~p.Closed /\ ~panicked /\ p.count > 0)
        => /\ At(p.Segments, p.head).SeqId = p.SeqNo
           /\ \A i \in 1..p.count : Live(p)[i].SeqId = p.SeqNo + i - 1

C23_Witness ==
    /\ p.capacity = 2 /\ p.count = 2 /\ p.head = 1 /\ p.tail = 1
    /\ lastCall = "Append" /\ lastErr = "nil" /\ nsegs = 4
    /\ At(p.Segments, 0).SeqId = p.SeqNo + 1

\* The URIs of a sequence of segments.
URIs(segs) == [i \in 1..Len(segs) |-> segs[i].URI]

\* The abstract FIFO queue bounded by cap: enqueue at the back unless full,
\* dequeue the oldest unless empty.
Enqueue(queue, x, cap) == IF Len(queue) < cap THEN Append(queue, x) ELSE queue
Dequeue(queue) == IF Len(queue) > 0 THEN Tail(queue) ELSE queue

\* C24: for a playlist of capacity C >= 1 mutated only by Append, Remove and
\* Slide, the segments read from head for count slots modulo C are the
\* contents of an abstract FIFO queue bounded by C run side by side: the queue
\* starts empty, Append enqueues at the back and fails exactly when the queue
\* is full, Remove dequeues the oldest element and fails exactly when the
\* queue is empty, Slide is the dequeue it makes followed by the enqueue.
C24_FifoRefinement ==
    /\ [](lastCall = "New" => Live(p) = <<>>)
    /\ [][ LET queue == URIs(Live(p))
               queue2 == URIs(Live(p'))
               C == p.capacity
           IN  /\ lastCall' = "Append"
                     => /\ queue2 = Enqueue(queue, nsegs + 1, C)
                        /\ (lastErr' = "ErrPlaylistFull") <=> (Len(queue) = C)
               /\ lastCall' = "Remove"
                     => /\ queue2 = Dequeue(queue)
                        /\ (lastErr' = "playlist is empty") <=> (Len(queue) = 0)
               /\ lastCall' = "Slide"
                     => queue2 = Enqueue(IF Len(queue) >= p.winsize
                                            THEN Dequeue(queue) ELSE queue,
                                         nsegs + 1, C)
               /\ lastCall' = "Encode" => queue2 = queue
               /\ p'.capacity = C /\ ~panicked'
         ]_vars

C24_Witness ==
    /\ p.capacity = 2 /\ p.head = 0 /\ p.tail = 0 /\ p.count = 2
    /\ lastCall = "Slide" /\ URIs(Live(p)) = <<3, 4>>

\* C25: no sequence of public MediaPlaylist operations on a playlist created
\* with capacity >= 1 makes an operation index the segment array out of
\* bounds or use an empty (nil) slot as a segment: Append, Remove, Encode and
\* the per-segment setters stay safe after InsertSegments or SetMediaSegments.
C25_NoPanic == obj = "media" => ~panicked

\* The segments of a sequence of slots that are not empty.
NonNil(segs) == SelectSeq(segs, LAMBDA seg : ~IsNil(seg))

\* C26: after a successful InsertSegments of n segments, count and capacity
\* have each grown by n, and the live window (count slots from head) holds
\* every previously live segment and every inserted segment exactly once, the
\* inserted ones contiguous at the insertion index and the segments that
\* followed it n slots to the right; no live segment is lost or left outside
\* the window.
C26_InsertKeepsWindow ==
    [][ InsertStep
            => LET n == nsegs' - nsegs
                   before == URIs(NonNil(Live(p)))
                   after == URIs(NonNil(Live(p')))
                   inserted == [k \in 1..n |-> nsegs + k]
               IN  /\ p'.count = p.count + n
                   /\ p'.capacity = p.capacity + n
                   /\ Len(after) = Len(before) + n
                   /\ \A k \in 1..n : At(p'.Segments, InsertedAt + k - 1).URI = nsegs + k
                   /\ \E j \in 0..Len(before) :
                         after = SubSeq(before, 1, j) \o inserted
                                    \o SubSeq(before, j + 1, Len(before))
                   /\ \A u \in Stored(p) :
                         SlotOf(p', u) = IF SlotOf(p, u) < InsertedAt THEN SlotOf(p, u)
                                         ELSE SlotOf(p, u) + n
      ]_vars

\* C27: Slide on a closed playlist makes no Remove and only the append step,
\* whatever the count and the window size; when the append step fails because
\* the buffer is full, the playlist-full error is reported to the caller and
\* the playlist is unchanged.
C27_SlideClosed ==
    [][ (lastCall' = "Slide" /\ p.Closed /\ ~panicked')
            => IF IsFull(p)
                  THEN lastErr' = "ErrPlaylistFull" /\ p' = p
                  ELSE /\ p'.head = p.head /\ p'.SeqNo = p.SeqNo
                       /\ p'.count = p.count + 1
                       /\ At(p'.Segments, p.tail).URI = nsegs + 1
      ]_vars

\* The segments a fresh Encode lists: the first winsize non-empty ones of the
\* visited slots, all of them with winsize 0.
Listed(q) ==
    LET segs == VisitedSegs(q)
    IN  IF q.winsize > 0 /\ q.winsize < Len(segs) THEN SubSeq(segs, 1, q.winsize) ELSE segs

\* The key line and the entry line of each segment of segs, a key line being
\* there exactly when the segment has a key that is not the same reference
\* as the default key.
RECURSIVE KeyedEntries(_, _)
KeyedEntries(q, segs) ==
    IF Len(segs) = 0 THEN <<>>
    ELSE (IF Head(segs).Key.ref # 0 /\ Head(segs).Key.ref # q.Key.ref
             THEN <<KeyLine(Head(segs).Key)>> ELSE <<>>)
         \o <<Line("#EXTINF", ExtInf(q, Head(segs)) \o <<Head(segs).URI>>)>>
         \o KeyedEntries(q, Tail(segs))

\* The lines of buf after the target duration line.
Body(buf) ==
    LET k == CHOOSE i \in 1..Len(buf) : buf[i].tag = "#EXT-X-TARGETDURATION"
    IN  SubSeq(buf, k + 1, Len(buf))

\* C28: Encode writes a per-segment key tag for a listed segment exactly when
\* the segment has a key and the key is not the same reference as the
\* playlist's default key: a key set through SetKey with the field values of
\* the default key is a distinct instance and gets its own EXT-X-KEY tag, a
\* segment that shares the default key reference gets none.
C28_KeyTagByReference ==
    (lastCall = "Encode" /\ rendered /\ ~panicked)
        => Body(p.buf) = KeyedEntries(p, Listed(p))

C28_Witness ==
    /\ lastCall = "Encode" /\ rendered /\ ~panicked
    /\ p.Key.ref # 0 /\ p.count = 1
    /\ LastSeg(p).Key.ref = 1
    /\ LastSeg(p).Key.Keyformat = p.Key.Keyformat
    /\ LastSeg(p).Key.Keyformatversions = p.Key.Keyformatversions
    /\ Len(LinesOf(p.buf, "#EXT-X-KEY")) = 2

====
